---- MODULE Spec2Model ----
(***************************************************************************)
(* Model of litex/soc/integration/soc.py: the SoCBusHandler region,        *)
(* master and slave tables, the SoCRegion address decoder, the slot        *)
(* handlers (SoCLocHandler, SoCCSRHandler, SoCIRQHandler) and the CPU      *)
(* check of SoC.do_finalize.                                               *)
(*                                                                         *)
(* A Python dict is a sequence of entries in insertion order; assigning to *)
(* an existing key replaces the value and keeps the key's position.  A     *)
(* bare `raise` aborts the composition: the exception is recorded in       *)
(* `error`, the tables stay as the handler left them and no further call   *)
(* is made.                                                                *)
(***************************************************************************)
EXTENDS Integers, Sequences, FiniteSets

\* ---------------------------------------------------------------- bounds
\* Width of the bus address in bits (32 in the source, scaled down).
AddressWidth == 4

\* Width in bits of the byte addresses the decoder is modelled for (32 in the
\* source: the mask 0x80000000 and the 30-bit word address, scaled down).
DecoderAddressWidth == 6

\* The largest capacity n_locs of the slot handlers explored.
MaxLocs == 3

\* The number of add_master calls explored.
MaxMasters == 3

\* --------------------------------------------------------------- domains
NoName == "None"
NoOrigin == -1
Names == {"a", "b"}
Origins == {0, 4}
Sizes == {4, 8}
IOOrigins == {0, 8}
IOSizes == {8}
LinkerNames == {"a"}
MasterNames == {"a", "b", "master1"}
SlaveNames == {"c"}

VARIABLES
    masters,     \* SoCBusHandler.masters: the set of its keys
    slaves,      \* SoCBusHandler.slaves: the set of its keys
    regions,     \* SoCBusHandler.regions
    io_regions,  \* SoCBusHandler.io_regions
    ld_regions,  \* SoCBusHandler.ld_regions
    error,       \* the exception that aborted the composition, or "none"
    overlap,     \* the pair reported with a RegionOverlap error
    dec,         \* the decoder under test and its answer
    locs,        \* SoCLocHandler.locs
    n_locs,      \* SoCLocHandler.n_locs
    ctor,        \* the handler constructor being run and its arguments
    cpu,         \* SoC.cpu: "absent" (never set), "CPUNone" or "cpu"
    finalized,   \* do_finalize has completed
    soc,         \* the SoC's components, slot tables, constants and wiring
    probe        \* the bus handler method under test and its progress

vars == <<masters, slaves, regions, io_regions, ld_regions, error, overlap,
          dec, locs, n_locs, ctor, cpu, finalized, soc, probe>>

\* The state of the slot handlers and of the SoC around the bus handler.
socvars == <<locs, n_locs, ctor, cpu, finalized, soc, probe>>

\* ------------------------------------------------------------ dict helpers
Keys(d) == {d[i].name : i \in DOMAIN d}

Get(d, n) == d[CHOOSE i \in DOMAIN d : d[i].name = n]

Put(d, e) ==
    IF e.name \in Keys(d)
    THEN [i \in DOMAIN d |-> IF d[i].name = e.name THEN e ELSE d[i]]
    ELSE Append(d, e)

Range(s) == {s[i] : i \in DOMAIN s}

Min(S) == CHOOSE x \in S : \A y \in S : x <= y

Max(S) == CHOOSE x \in S : \A y \in S : x >= y

\* --------------------------------------------------------------- regions
SoCRegion(origin, size, cached) ==
    [type |-> "SoCRegion", origin |-> origin, size |-> size, cached |-> cached]

SoCIORegion(origin, size, cached) ==
    [type |-> "SoCIORegion", origin |-> origin, size |-> size, cached |-> cached]

SoCLinkerRegion(origin, size, cached) ==
    [type |-> "SoCLinkerRegion", origin |-> origin, size |-> size, cached |-> cached]

\* An argument that is no region at all (the final else of add_region).
NotARegion == [type |-> "int", origin |-> 0, size |-> 0, cached |-> TRUE]

\* region=None of add_slave.
NoRegion == [type |-> "None", origin |-> NoOrigin, size |-> 0, cached |-> TRUE]

Entry(name, region) ==
    [name |-> name, type |-> region.type, origin |-> region.origin,
     size |-> region.size, cached |-> region.cached]

NoOverlap == <<>>

\* Mutants of the pair test: linker regions are tested like the others;
\* regions that touch count as overlapping.
PairOverlaps_with_linker(r0, r1) ==
    /\ ~(r0.origin >= r1.origin + r1.size)
    /\ ~(r1.origin >= r0.origin + r0.size)

PairOverlaps_touching(r0, r1) ==
    /\ ~(r0.type = "SoCLinkerRegion" \/ r1.type = "SoCLinkerRegion")
    /\ ~(r0.origin > r1.origin + r1.size)
    /\ ~(r1.origin > r0.origin + r0.size)

\* Lines 268-274: the test of one pair.
PairOverlaps(r0, r1) ==
    /\ ~(r0.type = "SoCLinkerRegion" \/ r1.type = "SoCLinkerRegion")
    /\ ~(r0.origin >= r1.origin + r1.size)
    /\ ~(r1.origin >= r0.origin + r0.size)

\* Mutants of check_regions_overlap: the outer loop stops after the first
\* entry; the pair reported is the last one found, not the first.
check_regions_overlap_first_row(d) ==
    LET hits == {j \in DOMAIN d : 1 < j /\ PairOverlaps(d[1], d[j])}
    IN IF hits = {} THEN NoOverlap ELSE <<d[1].name, d[Min(hits)].name>>

check_regions_overlap_last_pair(d) ==
    LET hits == {p \in (DOMAIN d) \X (DOMAIN d) :
                    p[1] < p[2] /\ PairOverlaps(d[p[1]], d[p[2]])}
    IN IF hits = {} THEN NoOverlap
       ELSE LET i == Max({p[1] : p \in hits})
                j == Max({p[2] : p \in {q \in hits : q[1] = i}})
            IN <<d[i].name, d[j].name>>

\* The first overlapping pair (n0, n1) in the scan order i, then j > i.
check_regions_overlap(d) ==
    LET hits == {p \in (DOMAIN d) \X (DOMAIN d) :
                    p[1] < p[2] /\ PairOverlaps(d[p[1]], d[p[2]])}
    IN IF hits = {} THEN NoOverlap
       ELSE LET i == Min({p[1] : p \in hits})
                j == Min({p[2] : p \in {q \in hits : q[1] = i}})
            IN <<d[i].name, d[j].name>>

\* Mutants of check_region_is_in: the lower bound is not tested; a region
\* that ends where the container ends is inside.
check_region_is_in_upper_only(region, container) ==
    region.origin + region.size < container.origin + container.size

check_region_is_in_inclusive(region, container) ==
    /\ region.origin >= container.origin
    /\ region.origin + region.size <= container.origin + container.size

check_region_is_in(region, container) ==
    /\ region.origin >= container.origin
    /\ region.origin + region.size < container.origin + container.size

check_region_is_io(io, region) ==
    \E i \in DOMAIN io : check_region_is_in(region, io[i])

\* The search regions of alloc_region (lines 236-239).
SearchRegions(io, cached) ==
    IF cached = FALSE
    THEN io
    ELSE <<Entry("main", SoCRegion(0, 2^AddressWidth - 1, TRUE))>>

\* The while loop of alloc_region over one search region (lines 244-256).
RECURSIVE ScanRegion(_, _, _, _, _)
ScanRegion(regs, sr, origin, size, cached) ==
    IF origin + size < sr.origin + sr.size
    THEN LET candidate == SoCRegion(origin, size, cached)
             hits == {i \in DOMAIN regs :
                        check_regions_overlap(
                            <<Entry("0", regs[i]), Entry("1", candidate)>>)
                        # NoOverlap}
         IN IF hits = {}
            THEN candidate
            ELSE LET hit == regs[Min(hits)]  \* the loop's `allocated`
                 IN ScanRegion(regs, sr, hit.origin + hit.size, size, cached)
    ELSE NoRegion

\* The for loop of alloc_region over the search regions (lines 242-259);
\* NoRegion stands for the raise of line 259.
RECURSIVE ScanSearch(_, _, _, _, _)
ScanSearch(regs, search, k, size, cached) ==
    IF k > Len(search)
    THEN NoRegion
    ELSE LET c == ScanRegion(regs, search[k], search[k].origin, size, cached)
         IN IF c # NoRegion THEN c
            ELSE ScanSearch(regs, search, k + 1, size, cached)

\* Mutant of alloc_region: after a conflict the candidate is moved behind the
\* conflicting region and returned without being checked again.
alloc_region_skip_once(regs, io, size, cached) ==
    LET search == SearchRegions(io, cached)
    IN IF search = <<>> \/ ~(search[1].origin + size
                              < search[1].origin + search[1].size)
       THEN NoRegion
       ELSE LET candidate == SoCRegion(search[1].origin, size, cached)
                hits == {i \in DOMAIN regs : PairOverlaps(regs[i], candidate)}
            IN IF hits = {} THEN candidate
               ELSE SoCRegion(regs[Min(hits)].origin + regs[Min(hits)].size,
                              size, cached)

alloc_region(regs, io, size, cached) ==
    ScanSearch(regs, SearchRegions(io, cached), 1, size, cached)

\* --------------------------------------------------------------- decoder
\* migen's log2_int(n, need_pow2): (n - 1).bit_length(), and 0 for n = 0.
RECURSIVE log2_int(_)
log2_int(n) == IF n <= 1 THEN 0 ELSE 1 + log2_int((n + 1) \div 2)

\* Width of the bus address signal `a`: word addresses (30 bits in the source).
AdrWidth == DecoderAddressWidth - 2

\* origin &= ~0x80000000: the top address bit is cleared (line 68).
ClearTopBit(origin) ==
    origin - ((origin \div 2^(DecoderAddressWidth - 1)) % 2)
                 * 2^(DecoderAddressWidth - 1)

\* Lines 66-69: the origin and the size the decoder works with.
DecoderOrigin(region) == ClearTopBit(region.origin)

DecoderSize(region) == 2^log2_int(region.size)

\* Lines 70-73: the raise for an origin that is not aligned on the size.
decoder_raises(region) ==
    DecoderOrigin(region) % DecoderSize(region) # 0

\* a[lo:-1] of a signal AdrWidth bits wide: bits lo .. AdrWidth-2, an empty
\* slice reading 0.
SliceToTop(a, lo) ==
    IF AdrWidth - 1 - lo <= 0 THEN 0
    ELSE (a \div 2^lo) % 2^(AdrWidth - 1 - lo)

\* Mutant of decoder: the slice keeps the top bit of a (a[lo:], not a[lo:-1]).
decoder_whole_address(region, a) ==
    LET origin == DecoderOrigin(region) \div 4
        size == DecoderSize(region) \div 4
    IN a \div 2^log2_int(size) = origin \div 2^log2_int(size)

\* Lines 74-76: the predicate returned, applied to the word address a.
decoder(region, a) ==
    LET origin == DecoderOrigin(region) \div 4
        size == DecoderSize(region) \div 4
    IN SliceToTop(a, log2_int(size)) = origin \div 2^log2_int(size)

\* The word address of a byte address, as the bus carries it.
WordAddress(x) == (x \div 4) % 2^AdrWidth

\* ------------------------------------------------------------ add_region
Tables(m, r, io, ld) ==
    [masters |-> m, regions |-> r, io_regions |-> io, ld_regions |-> ld]

Outcome(r, io, ld, err, ov) ==
    [regions |-> r, io_regions |-> io, ld_regions |-> ld,
     error |-> err, overlap |-> ov]

add_region_io(t, name, region) ==
    IF name \in t.masters
    THEN Outcome(t.regions, t.io_regions, t.ld_regions,
                 "DuplicateRegionName", NoOverlap)
    ELSE LET io == Put(t.io_regions, Entry(name, region))
             ov == check_regions_overlap(io)
         IN Outcome(t.regions, io, t.ld_regions,
                    IF ov # NoOverlap THEN "RegionOverlap" ELSE "none", ov)

add_region_linker(t, name, region) ==
    IF name \in t.masters
    THEN Outcome(t.regions, t.io_regions, t.ld_regions,
                 "DuplicateRegionName", NoOverlap)
    ELSE LET ld == Put(t.ld_regions, Entry(name, region))
             ov == check_regions_overlap(ld)
         IN Outcome(t.regions, t.io_regions, ld,
                    IF ov # NoOverlap THEN "RegionOverlap" ELSE "none", ov)

add_region_plain(t, name, region) ==
    IF region.origin = NoOrigin
    THEN LET c == alloc_region(t.regions, t.io_regions, region.size,
                               region.cached)
         IN IF c = NoRegion
            THEN Outcome(t.regions, t.io_regions, t.ld_regions,
                         "InsufficientAddressSpace", NoOverlap)
            ELSE Outcome(Put(t.regions, Entry(name, c)), t.io_regions,
                         t.ld_regions, "none", NoOverlap)
    ELSE IF ~region.cached /\ ~check_region_is_io(t.io_regions, region)
         THEN Outcome(t.regions, t.io_regions, t.ld_regions,
                      "UncachedRegionOutsideIO", NoOverlap)
         ELSE LET r == Put(t.regions, Entry(name, region))
                  ov == check_regions_overlap(r)
              IN Outcome(r, t.io_regions, t.ld_regions,
                         IF ov # NoOverlap THEN "RegionOverlap" ELSE "none",
                         ov)

add_region(t, name, region) ==
    IF region.type = "SoCIORegion" THEN add_region_io(t, name, region)
    ELSE IF region.type = "SoCLinkerRegion"
         THEN add_region_linker(t, name, region)
    ELSE IF region.type = "SoCRegion" THEN add_region_plain(t, name, region)
    ELSE Outcome(t.regions, t.io_regions, t.ld_regions,
                 "UnsupportedRegion", NoOverlap)


\* "master{:d}".format(n) and "slave{:d}".format(n).
MasterName(n) ==
    <<"master0", "master1", "master2", "master3", "master4", "master5">>[n + 1]

SlaveName(n) ==
    <<"slave0", "slave1", "slave2", "slave3", "slave4", "slave5">>[n + 1]

\* ------------------------------------------------------------ add_master
\* masters and slaves hold the names only: the interface objects and the
\* width adapter of add_adapter do not touch any table.
\* Mutant of add_master: the name is not tested against `masters`.
add_master_overwrite(m, name) ==
    LET n == IF name = NoName THEN MasterName(Cardinality(m)) ELSE name
    IN [masters |-> m \cup {n}, error |-> "none"]

add_master(m, name) ==
    LET n == IF name = NoName THEN MasterName(Cardinality(m)) ELSE name
    IN IF n \in m
       THEN [masters |-> m, error |-> "DuplicateMasterName"]
       ELSE [masters |-> m \cup {n}, error |-> "none"]

\* ------------------------------------------------------------- add_slave
SlaveOutcome(s, o, err) ==
    [slaves |-> s, regions |-> o.regions, io_regions |-> o.io_regions,
     ld_regions |-> o.ld_regions, error |-> err, overlap |-> o.overlap]

add_slave(t, s, name0, region0) ==
    LET same == Outcome(t.regions, t.io_regions, t.ld_regions, "none",
                        NoOverlap)
        no_name == name0 = NoName
        no_region == region0 = NoRegion
        name == IF no_name THEN SlaveName(Cardinality(s)) ELSE name0
    IN IF no_name /\ no_region
       THEN SlaveOutcome(s, same, "MissingNameOrRegion")
       ELSE IF no_region /\ name \notin Keys(t.regions)
       THEN SlaveOutcome(s, same, "UnknownRegionName")
       ELSE LET o == IF no_region THEN same
                     ELSE add_region(t, name, region0)
            IN IF o.error # "none" THEN SlaveOutcome(s, o, o.error)
               ELSE IF name \in s
               THEN SlaveOutcome(s, o, "DuplicateSlaveName")
               ELSE SlaveOutcome(s \cup {name}, o, "none")

\* --------------------------------------------------------------- actions
Bus == Tables(masters, regions, io_regions, ld_regions)

InitBus ==
    /\ masters = {}
    /\ slaves = {}
    /\ regions = <<>>
    /\ io_regions = <<>>
    /\ ld_regions = <<>>
    /\ error = "none"
    /\ overlap = NoOverlap

AddRegion(name, region) ==
    /\ error = "none"
    /\ LET o == add_region(Bus, name, region)
       IN /\ regions' = o.regions
          /\ io_regions' = o.io_regions
          /\ ld_regions' = o.ld_regions
          /\ error' = o.error
          /\ overlap' = o.overlap
    /\ UNCHANGED <<masters, slaves, dec>>
    /\ UNCHANGED socvars

AddMaster(name) ==
    /\ error = "none"
    /\ LET o == add_master(masters, name)
       IN /\ masters' = o.masters
          /\ error' = o.error
    /\ Cardinality(masters) < MaxMasters
    /\ UNCHANGED <<slaves, regions, io_regions, ld_regions, overlap, dec>>
    /\ UNCHANGED socvars

AddSlave(name, region) ==
    /\ error = "none"
    /\ LET o == add_slave(Bus, slaves, name, region)
       IN /\ slaves' = o.slaves
          /\ regions' = o.regions
          /\ io_regions' = o.io_regions
          /\ ld_regions' = o.ld_regions
          /\ error' = o.error
          /\ overlap' = o.overlap
    /\ UNCHANGED <<masters, dec>>
    /\ UNCHANGED socvars

\* ----------------------------------------------------------- call inputs
PlainRegions ==
    {SoCRegion(o, s, c) : o \in Origins \cup {NoOrigin}, s \in Sizes,
                          c \in BOOLEAN}

IORegions == {SoCIORegion(o, s, FALSE) : o \in IOOrigins, s \in IOSizes}

LinkerRegions == {SoCLinkerRegion(0, 8, TRUE)}

\* add_slave hands its region to add_region unchanged (line 336).
SlaveRegions == {NoRegion, SoCRegion(4, 4, TRUE)}

NoDecoder == [origin |-> 0, size |-> 0, a |-> 0, out |-> "none"]

\* No slot handler and no SoC around the bus handler.
NoCtor == [kind |-> "none"]

\* No method under test.
NoProbe == [fn |-> "none"]

\* The fields of a SoC after SoC.__init__ (lines 609-676) with the default
\* arguments: no component, empty CSR and IRQ slot tables, no CSR region, no
\* interrupt wired.  `constants` leaves out the CONFIG_CLOCK_FREQUENCY of line
\* 676, which no later constant can collide with.
NewSoC ==
    [submodules |-> {}, csr_locs |-> {}, irq_locs |-> {},
     csr_regions |-> <<>>, constants |-> {}, irq_wired |-> {},
     cpu_interrupts |-> {}]

InitNoSoC ==
    /\ locs = {}
    /\ n_locs = 0
    /\ ctor = NoCtor
    /\ cpu = "absent"
    /\ finalized = FALSE
    /\ soc = NewSoC
    /\ probe = NoProbe

Init ==
    /\ InitBus
    /\ dec = NoDecoder
    /\ InitNoSoC

Next ==
    \/ \E name \in Names, region \in PlainRegions : AddRegion(name, region)
    \/ \E name \in Names, region \in IORegions : AddRegion(name, region)
    \/ \E name \in LinkerNames, region \in LinkerRegions \cup {NotARegion} :
          AddRegion(name, region)
    \/ \E name \in SlaveNames, region \in SlaveRegions :
          AddSlave(name, region)

Spec == Init /\ [][Next]_vars

\* ------------------------------------------------- the decoder on its own
\* Regions of every origin and of every size up to half the address space,
\* and every word address.
DecoderOrigins == 0 .. 2^DecoderAddressWidth - 1

DecoderSizes == 1 .. 2^(DecoderAddressWidth - 1)

InitDecoder ==
    /\ InitBus
    /\ InitNoSoC
    /\ \E o \in DecoderOrigins, s \in DecoderSizes, a \in 0 .. 2^AdrWidth - 1 :
          dec = [origin |-> o, size |-> s, a |-> a, out |-> "pending"]

Decode ==
    /\ dec.out = "pending"
    /\ LET region == SoCRegion(dec.origin, dec.size, TRUE)
       IN dec' = [dec EXCEPT !.out =
                     IF decoder_raises(region) THEN "raise"
                     ELSE IF decoder(region, dec.a) THEN "accept"
                     ELSE "reject"]
    /\ UNCHANGED <<masters, slaves, regions, io_regions, ld_regions, error,
                   overlap>>
    /\ UNCHANGED socvars

NextDecoder == Decode

SpecDecoder == InitDecoder /\ [][NextDecoder]_vars

\* --------------------------------------------------------- SoCLocHandler
\* `locs` is the set of its (name, n) items; n=None is NoSlot.
NoSlot == -2

LocNames == {"a", "b", "c", "d"}

\* The slot numbers passed to add: below, inside and above 0 .. n_locs.
Slots == -1 .. MaxLocs + 1

LocKeys(l) == {e.name : e \in l}

LocValues(l) == {e.n : e \in l}

LocItem(name, n) == [name |-> name, n |-> n]

LocOutcome(l, err) == [locs |-> l, error |-> err]

\* Mutants of alloc: the first slot whether it is free or not; the last free
\* slot.
alloc_first_slot(l, n) == IF n > 0 THEN 0 ELSE NoSlot

alloc_last_free(l, n) ==
    LET free == {k \in 0 .. n - 1 : k \notin LocValues(l)}
    IN IF free = {} THEN NoSlot ELSE Max(free)

\* Lines 418-424; NoSlot stands for the raise of line 424.
alloc(l, n) ==
    LET free == {k \in 0 .. n - 1 : k \notin LocValues(l)}
    IN IF free = {} THEN NoSlot ELSE Min(free)

\* Mutant of add: use_loc_if_exists is ignored.
add_no_reuse(l, nl, name, n, use_loc_if_exists) ==
    IF name \in LocKeys(l) THEN LocOutcome(l, "DuplicateLocationName")
    ELSE IF n \in LocValues(l) THEN LocOutcome(l, "DuplicateLocationNumber")
    ELSE IF n = NoSlot
         THEN IF alloc(l, nl) = NoSlot THEN LocOutcome(l, "CapacityExhausted")
              ELSE LocOutcome(l \cup {LocItem(name, alloc(l, nl))}, "none")
    ELSE IF n < 0 \/ n > nl THEN LocOutcome(l, "LocationOutOfRange")
    ELSE LocOutcome(l \cup {LocItem(name, n)}, "none")

\* Mutant of add: the slot number is not looked up among the values.
add_number_unchecked(l, nl, name, n, use_loc_if_exists) ==
    IF use_loc_if_exists /\ name \in LocKeys(l) THEN LocOutcome(l, "none")
    ELSE IF name \in LocKeys(l) THEN LocOutcome(l, "DuplicateLocationName")
    ELSE IF n = NoSlot
         THEN IF alloc(l, nl) = NoSlot THEN LocOutcome(l, "CapacityExhausted")
              ELSE LocOutcome(l \cup {LocItem(name, alloc(l, nl))}, "none")
    ELSE IF n < 0 \/ n > nl THEN LocOutcome(l, "LocationOutOfRange")
    ELSE LocOutcome(l \cup {LocItem(name, n)}, "none")

\* Lines 382-415.  Every raise aborts the call before line 408; the one of
\* lines 402-407 is reached for n > n_locs only.
add(l, nl, name, n, use_loc_if_exists) ==
    IF use_loc_if_exists /\ name \in LocKeys(l)
    THEN LocOutcome(l, "none")
    ELSE IF name \in LocKeys(l)
         THEN LocOutcome(l, "DuplicateLocationName")
    ELSE IF n \in LocValues(l)
         THEN LocOutcome(l, "DuplicateLocationNumber")
    ELSE IF n = NoSlot
         THEN LET a == alloc(l, nl)
              IN IF a = NoSlot THEN LocOutcome(l, "CapacityExhausted")
                 ELSE LocOutcome(l \cup {LocItem(name, a)}, "none")
    ELSE IF n < 0 THEN LocOutcome(l, "LocationOutOfRange")
    ELSE IF n > nl THEN LocOutcome(l, "LocationOutOfRange")
    ELSE LocOutcome(l \cup {LocItem(name, n)}, "none")

\* SoCLocHandler.__init__ with a capacity of 1 .. MaxLocs.
InitLoc ==
    /\ InitBus
    /\ dec = NoDecoder
    /\ locs = {}
    /\ n_locs \in 1 .. MaxLocs
    /\ ctor = NoCtor
    /\ cpu = "absent"
    /\ finalized = FALSE
    /\ soc = NewSoC
    /\ probe = NoProbe

Add(name, n, use_loc_if_exists) ==
    /\ error = "none"
    /\ LET o == add(locs, n_locs, name, n, use_loc_if_exists)
       IN /\ locs' = o.locs
          /\ error' = o.error
    /\ UNCHANGED <<masters, slaves, regions, io_regions, ld_regions, overlap,
                   dec, n_locs, ctor, cpu, finalized, soc, probe>>

NextLoc ==
    \E name \in LocNames, n \in Slots \cup {NoSlot}, use \in BOOLEAN :
        Add(name, n, use)

SpecLoc == InitLoc /\ [][NextLoc]_vars

\* ------------------------------------------- SoCCSRHandler, SoCIRQHandler
\* The IRQ number limit of line 556.
MaxIrqs == 32

CtorOutcome(l, nl, err) == [locs |-> l, n_locs |-> nl, error |-> err]

\* The `for name, n in reserved.items(): self.add(name, n)` loops of lines
\* 496-497 and 566-567, from item k on.
RECURSIVE add_reserved(_, _, _, _)
add_reserved(l, nl, reserved, k) ==
    IF k > Len(reserved) THEN LocOutcome(l, "none")
    ELSE LET o == add(l, nl, reserved[k].name, reserved[k].n, FALSE)
         IN IF o.error # "none" THEN o
            ELSE add_reserved(o.locs, nl, reserved, k + 1)

\* Mutant of CSRCapacity: the factor 4 is left out.
CSRCapacityUnscaled(address_width, paging) == 2^address_width \div paging

\* n_locs of line 444.
CSRCapacity(address_width, paging) == (4 * 2^address_width) \div paging

supported_data_width == {8, 32}

supported_address_width == {14, 15}

supported_alignment == {32, 64}

supported_paging == {2048}

\* Lines 443-499.
SoCCSRHandler(data_width, address_width, alignment, paging, reserved_csrs) ==
    LET nl == CSRCapacity(address_width, paging)
    IN IF data_width \notin supported_data_width
       THEN CtorOutcome({}, nl, "UnsupportedDataWidth")
       ELSE IF address_width \notin supported_address_width
       THEN CtorOutcome({}, nl, "UnsupportedAddressWidth")
       ELSE IF alignment \notin supported_alignment
       THEN CtorOutcome({}, nl, "UnsupportedAlignment")
       ELSE IF data_width > alignment
       THEN CtorOutcome({}, nl, "AlignmentBelowDataWidth")
       ELSE IF paging \notin supported_paging
       THEN CtorOutcome({}, nl, "UnsupportedPaging")
       ELSE LET o == add_reserved({}, nl, reserved_csrs, 1)
            IN CtorOutcome(o.locs, nl, o.error)

\* Mutant of SoCIRQHandler: the reserved IRQs are registered before the
\* number of IRQs is checked.
SoCIRQHandler_check_last(n_irqs, reserved_irqs) ==
    LET o == add_reserved({}, n_irqs, reserved_irqs, 1)
    IN IF o.error # "none" THEN CtorOutcome(o.locs, n_irqs, o.error)
       ELSE IF n_irqs > MaxIrqs
       THEN CtorOutcome(o.locs, n_irqs, "UnsupportedIrqCount")
       ELSE CtorOutcome(o.locs, n_irqs, "none")

\* Lines 550-569.  The message of line 558 reads an unbound `n`: the abort of
\* n_irqs > 32 happens there, one line before the `raise`.
SoCIRQHandler(n_irqs, reserved_irqs) ==
    IF n_irqs > MaxIrqs
    THEN CtorOutcome({}, n_irqs, "UnsupportedIrqCount")
    ELSE LET o == add_reserved({}, n_irqs, reserved_irqs, 1)
         IN CtorOutcome(o.locs, n_irqs, o.error)

\* The constructor calls explored.  CSR names are numbered: 0 is the reserved
\* one, k is the k-th name registered afterwards.
CSRCtors ==
    [kind : {"CSR"}, state : {"new"}, data_width : {8, 16, 32},
     address_width : {13, 14, 15}, alignment : {32, 64},
     paging : {1024, 2048},
     reserved : {<<>>, <<LocItem(0, 5)>>}]

ReservedIrqs ==
    {<<>>}
    \cup {<<LocItem(name, n)>> : name \in {"a", "b"}, n \in {0, 1, MaxIrqs}}
    \cup {<<LocItem("a", n), LocItem("b", m)>> : n, m \in {0, 1, MaxIrqs}}

IRQCtors ==
    [kind : {"IRQ"}, state : {"new"},
     n_irqs : {1, 2, MaxIrqs - 1, MaxIrqs, MaxIrqs + 1, MaxIrqs + 8},
     reserved : ReservedIrqs]

InitCtor(ctors) ==
    /\ InitBus
    /\ dec = NoDecoder
    /\ locs = {}
    /\ n_locs = 0
    /\ ctor \in ctors
    /\ cpu = "absent"
    /\ finalized = FALSE
    /\ soc = NewSoC
    /\ probe = NoProbe

Construct(o) ==
    /\ locs' = o.locs
    /\ n_locs' = o.n_locs
    /\ error' = o.error
    /\ ctor' = [ctor EXCEPT !.state = "done"]
    /\ UNCHANGED <<masters, slaves, regions, io_regions, ld_regions, overlap,
                   dec, cpu, finalized, soc, probe>>

ConstructCSR ==
    /\ ctor.kind = "CSR" /\ ctor.state = "new"
    /\ Construct(SoCCSRHandler(ctor.data_width, ctor.address_width,
                               ctor.alignment, ctor.paging, ctor.reserved))

\* csr.add(name) for the next name not registered yet.
AddCSR ==
    /\ ctor.kind = "CSR" /\ ctor.state = "done"
    /\ Add(Cardinality(locs) + 1, NoSlot, FALSE)

NextCSR == ConstructCSR \/ AddCSR

SpecCSR == InitCtor(CSRCtors) /\ [][NextCSR]_vars

ConstructIRQ ==
    /\ ctor.kind = "IRQ" /\ ctor.state = "new"
    /\ Construct(SoCIRQHandler(ctor.n_irqs, ctor.reserved))

NextIRQ == ConstructIRQ

SpecIRQ == InitCtor(IRQCtors) /\ [][NextIRQ]_vars

\* ------------------------------------------------- masters and I/O regions
\* add_master calls, by name and unnamed, and the add_region calls that test
\* their name against `masters`.
NextMasters ==
    \/ \E name \in MasterNames \cup {NoName} : AddMaster(name)
    \/ \E name \in Names, region \in IORegions : AddRegion(name, region)

SpecMasters == Init /\ [][NextMasters]_vars

\* ------------------------------------- the region checks on their own
\* check_regions_overlap on a mapping of two regions, check_region_is_in on
\* a region and a container, check_region_is_io on a region and a table of
\* I/O regions: regions of every origin in the lower half of the address
\* space and of every size up to a quarter of it.
ProbeOrigins == 0 .. 2^(AddressWidth - 1) - 1

ProbeSizes == 1 .. 2^(AddressWidth - 2)

ProbeRegions ==
    {SoCRegion(o, s, TRUE) : o \in ProbeOrigins, s \in ProbeSizes}
    \cup {SoCLinkerRegion(o, s, TRUE) : o \in ProbeOrigins, s \in ProbeSizes}

\* The `io_regions` tables that add_region calls with SoCIORegions of sizes
\* 4 and 8 leave behind: up to two regions that do not overlap.
ProbeIORegions ==
    {SoCIORegion(o, s, FALSE) : o \in {0, 4, 8}, s \in {4, 8}}

ProbeIOTables ==
    {<<>>}
    \cup {<<Entry("a", r)>> : r \in ProbeIORegions}
    \cup {<<Entry("a", r[1]), Entry("b", r[2])>> :
             r \in {q \in ProbeIORegions \X ProbeIORegions :
                       ~PairOverlaps(q[1], q[2])}}

InitRegionChecks ==
    /\ masters = {}
    /\ slaves = {}
    /\ regions = <<>>
    /\ ld_regions = <<>>
    /\ error = "none"
    /\ overlap = NoOverlap
    /\ dec = NoDecoder
    /\ locs = {}
    /\ n_locs = 0
    /\ ctor = NoCtor
    /\ cpu = "absent"
    /\ finalized = FALSE
    /\ soc = NewSoC
    /\ \/ /\ io_regions = <<>>
          /\ \E fn \in {"check_regions_overlap", "check_region_is_in"},
                r0 \in ProbeRegions, r1 \in ProbeRegions :
                probe = [fn |-> fn, r0 |-> r0, r1 |-> r1, done |-> FALSE,
                         overlap |-> NoOverlap, answer |-> FALSE]
       \/ /\ io_regions \in ProbeIOTables
          /\ \E r0 \in ProbeRegions :
                probe = [fn |-> "check_region_is_io", r0 |-> r0,
                         r1 |-> NoRegion, done |-> FALSE,
                         overlap |-> NoOverlap, answer |-> FALSE]

Checked(p) ==
    /\ probe' = p
    /\ UNCHANGED <<masters, slaves, regions, io_regions, ld_regions, error,
                   overlap, dec, locs, n_locs, ctor, cpu, finalized, soc>>

\* check_regions_overlap({"0": r0, "1": r1}).
CheckRegionsOverlap ==
    /\ probe.fn = "check_regions_overlap" /\ ~probe.done
    /\ Checked([probe EXCEPT
                   !.done = TRUE,
                   !.overlap = check_regions_overlap(
                                   <<Entry("0", probe.r0),
                                     Entry("1", probe.r1)>>)])

CheckRegionIsIn ==
    /\ probe.fn = "check_region_is_in" /\ ~probe.done
    /\ Checked([probe EXCEPT
                   !.done = TRUE,
                   !.answer = check_region_is_in(probe.r0, probe.r1)])

CheckRegionIsIo ==
    /\ probe.fn = "check_region_is_io" /\ ~probe.done
    /\ Checked([probe EXCEPT
                   !.done = TRUE,
                   !.answer = check_region_is_io(io_regions, probe.r0)])

NextRegionChecks == CheckRegionsOverlap \/ CheckRegionIsIn \/ CheckRegionIsIo

SpecRegionChecks == InitRegionChecks /\ [][NextRegionChecks]_vars

\* ------------------------------------------- alloc_region, step by step
\* Mutant of the skip-ahead: the search origin is moved to the start of the
\* conflicting region.
SkipAhead_to_origin(allocated) ==
    allocated.origin

\* Line 252: the search origin after a conflict with `allocated`.
SkipAhead(allocated) ==
    allocated.origin + allocated.size

\* The plain regions given an origin by the caller.
ExplicitRegions ==
    {SoCRegion(o, s, c) : o \in Origins, s \in Sizes, c \in BOOLEAN}

\* alloc_region(name, size, cached) enters its for loop (lines 235-243).
AllocStart(size, cached) ==
    /\ error = "none"
    /\ probe = NoProbe
    /\ LET search == SearchRegions(io_regions, cached)
       IN probe' = [fn |-> "alloc_region", size |-> size, cached |-> cached,
                    k |-> 1,
                    origin |-> IF search = <<>> THEN 0 ELSE search[1].origin,
                    done |-> FALSE, region |-> NoRegion]
    /\ UNCHANGED <<masters, slaves, regions, io_regions, ld_regions, error,
                   overlap, dec, locs, n_locs, ctor, cpu, finalized, soc>>

\* One test of the while condition of line 244 for search region k: the
\* candidate at `origin` is returned (line 256) or the origin is moved behind
\* the first allocated region it overlaps (lines 249-253); a search region
\* that is exhausted hands over to the next one (line 242), the last one to
\* the raise of line 259.
AllocStep ==
    /\ probe.fn = "alloc_region" /\ ~probe.done
    /\ LET search == SearchRegions(io_regions, probe.cached)
           k == probe.k
       IN IF k > Len(search)
          THEN /\ probe' = [probe EXCEPT !.done = TRUE]
               /\ error' = "InsufficientAddressSpace"
          ELSE /\ error' = error
               /\ IF probe.origin + probe.size
                        < search[k].origin + search[k].size
                  THEN LET candidate == SoCRegion(probe.origin, probe.size,
                                                  probe.cached)
                           hits == {i \in DOMAIN regions :
                                      check_regions_overlap(
                                          <<Entry("0", regions[i]),
                                            Entry("1", candidate)>>)
                                      # NoOverlap}
                       IN IF hits = {}
                          THEN probe' = [probe EXCEPT !.done = TRUE,
                                                      !.region = candidate]
                          ELSE probe' = [probe EXCEPT !.origin =
                                            SkipAhead(regions[Min(hits)])]
                  ELSE probe' = [probe EXCEPT
                                    !.k = k + 1,
                                    !.origin = IF k + 1 <= Len(search)
                                               THEN search[k + 1].origin
                                               ELSE probe.origin]
    /\ UNCHANGED <<masters, slaves, regions, io_regions, ld_regions, overlap,
                   dec, locs, n_locs, ctor, cpu, finalized, soc>>

\* Tables are built by add_region calls with explicit origins, then one
\* alloc_region call runs to its end.
AddRegionBeforeAlloc(name, region) ==
    /\ probe = NoProbe
    /\ AddRegion(name, region)

NextAlloc ==
    \/ \E name \in Names, region \in ExplicitRegions :
          AddRegionBeforeAlloc(name, region)
    \/ \E name \in Names, region \in IORegions :
          AddRegionBeforeAlloc(name, region)
    \/ \E size \in 1 .. 2^(AddressWidth - 1), cached \in BOOLEAN :
          AllocStart(size, cached)
    \/ AllocStep

SpecAlloc == Init /\ [][NextAlloc]_vars

\* alloc_region is one synchronous call: once entered, its loop is run until
\* it returns or raises.
SpecAllocFair == SpecAlloc /\ WF_vars(AllocStep)

\* ---------------------------------------------------- SoC: add_cpu, finalize
\* The names do_finalize requires of a SoC with a CPU (line 820).
RequiredRegions == {"rom", "sram"}

\* cpu.CPUS[name]: no CPU ("None", a CPUNone) or a CPU with one or two buses.
CpuKinds == {"CPUNone", "cpu"}

CpuBuses == {1, 2}

CpuBusName(n) == <<"cpu_bus0", "cpu_bus1">>[n + 1]

\* Lines 741-742: add_master("cpu_bus<n>") for bus n of `buses`.
RECURSIVE add_cpu_buses(_, _, _)
add_cpu_buses(m, n, buses) ==
    IF n >= buses THEN [masters |-> m, error |-> "none"]
    ELSE LET o == add_master(m, CpuBusName(n))
         IN IF o.error # "none" THEN o
            ELSE add_cpu_buses(o.masters, n + 1, buses)

\* The defaults of SoC.__init__ for its CSR and IRQ handlers.
csr_address_width == 14

csr_paging == 2048

irq_n_irqs == 32

\* A step of a SoC method that touches the SoC's own fields only.
SoCStep(s, err) ==
    /\ soc' = s
    /\ error' = err
    /\ UNCHANGED <<masters, slaves, regions, io_regions, ld_regions, overlap,
                   dec, locs, n_locs, ctor, cpu, finalized, probe>>

\* hasattr(self, name) for the names used here: a component, or the cpu.
HasAttr(s, c, name) ==
    \/ \E m \in s.submodules : m.name = name
    \/ name = "cpu" /\ c # "absent"

\* name.upper() of line 685, for the names used here.
Upper(name) ==
    CASE name = "timer0" -> "TIMER0"
      [] name = "ctrl" -> "CTRL"
      [] name = "uart" -> "UART"
      [] name = "nmi" -> "NMI"
      [] OTHER -> name

\* Lines 684-689 for the name `name` + "_INTERRUPT"; a constant is its
\* upper-cased name and its value.
add_constant(s, name, value) ==
    IF \E k \in s.constants : k.name = <<Upper(name), "_INTERRUPT">>
    THEN [soc |-> s, error |-> "DuplicateConstant"]
    ELSE [soc |-> [s EXCEPT !.constants =
                      @ \cup {[name |-> <<Upper(name), "_INTERRUPT">>,
                               value |-> value]}],
          error |-> "none"]

\* Lines 699-702: a SoCController has CSRs and no event source.
AddController(name) ==
    /\ error = "none"
    /\ IF HasAttr(soc, cpu, name)
       THEN SoCStep(soc, "SubModuleExists")
       ELSE LET o == add(soc.csr_locs,
                         CSRCapacity(csr_address_width, csr_paging),
                         name, NoSlot, TRUE)
            IN SoCStep([soc EXCEPT
                           !.submodules = @ \cup {[name |-> name, ev |-> FALSE,
                                                   csrs |-> TRUE]},
                           !.csr_locs = o.locs],
                       o.error)

\* Lines 757-761: a Timer has CSRs and an event source.
AddTimer(name) ==
    /\ error = "none"
    /\ IF HasAttr(soc, cpu, name)
       THEN SoCStep(soc, "SubModuleExists")
       ELSE LET o == add(soc.csr_locs,
                         CSRCapacity(csr_address_width, csr_paging),
                         name, NoSlot, TRUE)
                i == add(soc.irq_locs, irq_n_irqs, name, NoSlot, TRUE)
                s == [soc EXCEPT
                         !.submodules = @ \cup {[name |-> name, ev |-> TRUE,
                                                 csrs |-> TRUE]},
                         !.csr_locs = o.locs]
            IN IF o.error # "none" THEN SoCStep(s, o.error)
               ELSE SoCStep([s EXCEPT !.irq_locs = i.locs], i.error)

\* self.csr.add(name, n) and self.irq.add(name, n, use_loc_if_exists), as the
\* methods of a SoC and its users call them (lines 884-886, 902).
CsrAdd(name, n) ==
    /\ error = "none"
    /\ LET o == add(soc.csr_locs, CSRCapacity(csr_address_width, csr_paging),
                    name, n, FALSE)
       IN SoCStep([soc EXCEPT !.csr_locs = o.locs], o.error)

IrqAdd(name, n, use_loc_if_exists) ==
    /\ error = "none"
    /\ LET o == add(soc.irq_locs, irq_n_irqs, name, n, use_loc_if_exists)
       IN SoCStep([soc EXCEPT !.irq_locs = o.locs], o.error)

\* Lines 718-728: the bridge is a component without CSRs; the region of the
\* CSR space is uncached and 2^(address_width + 2) bytes long.  The CSR master
\* and the CONFIG_CSR_* constants are left out.
AddCsrBridge(origin) ==
    /\ error = "none"
    /\ LET o == add_slave(Bus, slaves, "csr",
                          SoCRegion(origin, 2^(csr_address_width + 2), FALSE))
       IN /\ slaves' = o.slaves
          /\ regions' = o.regions
          /\ io_regions' = o.io_regions
          /\ ld_regions' = o.ld_regions
          /\ error' = o.error
          /\ overlap' = o.overlap
    /\ soc' = [soc EXCEPT !.submodules =
                  @ \cup {[name |-> "csr_bridge", ev |-> FALSE,
                           csrs |-> FALSE]}]
    /\ UNCHANGED <<masters, dec, locs, n_locs, ctor, cpu, finalized, probe>>

\* Lines 730-755 for a CPU without I/O regions and without CSRs of its own;
\* self.cpu is set at line 737, before the masters are added.  add_csr (line
\* 743) and mem_map (line 752) are those of the class the SoC is built from:
\* add_csr registers the name with self.csr.  `interrupts` is cpu.interrupts,
\* in insertion order.
AddCpu(kind, buses, interrupts) ==
    /\ error = "none"
    /\ cpu = "absent"
    /\ cpu' = kind
    /\ LET o == IF kind = "CPUNone"
                THEN [masters |-> masters, error |-> "none"]
                ELSE add_cpu_buses(masters, 0, buses)
           c == add(soc.csr_locs, CSRCapacity(csr_address_width, csr_paging),
                    "cpu", NoSlot, TRUE)
           i == add_reserved(soc.irq_locs, irq_n_irqs, interrupts, 1)
       IN /\ masters' = o.masters
          /\ IF kind = "CPUNone" \/ o.error # "none"
             THEN error' = o.error /\ soc' = soc
             ELSE IF c.error # "none"
             THEN error' = c.error /\ soc' = soc
             ELSE /\ error' = i.error
                  /\ soc' = [soc EXCEPT
                                !.csr_locs = c.locs,
                                !.irq_locs = i.locs,
                                !.cpu_interrupts =
                                    {interrupts[k].name :
                                        k \in DOMAIN interrupts}]
    /\ UNCHANGED <<slaves, regions, io_regions, ld_regions, overlap, dec,
                   locs, n_locs, ctor, finalized, probe>>

\* Line 775: the exceptions of self.bus.regions[n].decoder() over the slaves.
slave_decoder_errors(t, s) ==
    {"KeyError" : n \in {x \in s : x \notin Keys(t.regions)}}
    \cup {"MisalignedOrigin" :
             n \in {x \in s : /\ x \in Keys(t.regions)
                              /\ decoder_raises(Get(t.regions, x))}}

\* Lines 818-825: self.cpu of a SoC without add_cpu is no attribute.
cpu_check(t, c) ==
    IF c = "absent" THEN "AttributeError"
    ELSE IF c # "CPUNone"
            /\ \E name \in RequiredRegions :
                  name \notin Keys(t.regions) \cup Keys(t.ld_regions)
    THEN "MissingRequiredRegion"
    ELSE "none"

\* The names used here in the order of Python's string comparison: the order
\* of sorted() at line 830 and of the scan of the components.
NameOrder == <<"UART", "cpu", "csr_bridge", "ctrl", "nmi", "timer0", "uart">>

InNameOrder(S) == SelectSeq(NameOrder, LAMBDA n : n \in S)

LocOf(l, name) == (CHOOSE e \in l : e.name = name).n

\* csr_bankarray.banks of line 798, as far as lines 798-802 read it: the
\* names of the components with CSRs, in the order of the scan (by name).
\* Components with CSR memories (lines 805-809) are not explored.
csr_banks(s) ==
    InNameOrder({m.name : m \in {x \in s.submodules : x.csrs}})

\* Lines 798-802 from bank k on: csr.add_region (lines 522-524) stores the
\* region under the bank's name; mapaddr is address_map(name) = locs[name]
\* (lines 527-533).
RECURSIVE csr_add_regions(_, _, _, _, _)
csr_add_regions(rs, banks, k, base, l) ==
    IF k > Len(banks) THEN rs
    ELSE csr_add_regions(
             Put(rs, [name |-> banks[k],
                      origin |-> base + csr_paging * LocOf(l, banks[k])]),
             banks, k + 1, base, l)

\* Mutant of the sort of line 812: the regions stay in the order of the banks.
sorted_by_origin_unsorted(rs) ==
    rs

\* Line 812: sorted() by origin; regions of equal origin keep their order.
RECURSIVE sorted_by_origin(_)
sorted_by_origin(rs) ==
    IF rs = <<>> THEN <<>>
    ELSE LET front == sorted_by_origin(SubSeq(rs, 1, Len(rs) - 1))
             e == rs[Len(rs)]
             k == Cardinality({i \in DOMAIN front :
                                 front[i].origin <= e.origin})
         IN SubSeq(front, 1, k) \o <<e>> \o SubSeq(front, k + 1, Len(front))

\* Lines 830-839 from item k of the sorted (name, loc) items on.  A component
\* without `ev` is logged (lines 835-837) and read all the same: module.ev of
\* line 838 raises, which is the MissingEventSource failure.  A name that is
\* no attribute of the SoC is not wired; its constant is added all the same.
RECURSIVE irq_interconnect(_, _, _, _)
irq_interconnect(s, c, names, k) ==
    IF k > Len(names) THEN [soc |-> s, error |-> "none"]
    ELSE LET name == names[k]
             loc == LocOf(s.irq_locs, name)
         IN IF name \in s.cpu_interrupts
            THEN irq_interconnect(s, c, names, k + 1)
            ELSE IF /\ HasAttr(s, c, name)
                    /\ ~\E m \in s.submodules : m.name = name /\ m.ev
            THEN [soc |-> s, error |-> "MissingEventSource"]
            ELSE LET w == IF HasAttr(s, c, name)
                          THEN [s EXCEPT !.irq_wired =
                                   @ \cup {[loc |-> loc, name |-> name]}]
                          ELSE s
                     o == add_constant(w, name, loc)
                 IN IF o.error # "none" THEN o
                    ELSE irq_interconnect(o.soc, c, names, k + 1)

\* Lines 785-839, behind the bus interconnect: the CSR banks are scanned
\* (address_map raises for a bank without a slot), their regions are added
\* and sorted, the CPU is checked, the interrupts are wired (a CPUNone has no
\* `interrupt`).
do_finalize(t, c, s) ==
    LET banks == csr_banks(s)
    IN IF \E k \in DOMAIN banks : banks[k] \notin LocKeys(s.csr_locs)
       THEN [soc |-> s, error |-> "UndefinedCSR"]
       ELSE IF banks # <<>> /\ "csr" \notin Keys(t.regions)
       THEN [soc |-> s, error |-> "KeyError"]
       ELSE LET rs == IF banks = <<>> THEN s.csr_regions
                      ELSE csr_add_regions(s.csr_regions, banks, 1,
                                           Get(t.regions, "csr").origin,
                                           s.csr_locs)
                s1 == [s EXCEPT !.csr_regions = sorted_by_origin(rs)]
            IN IF cpu_check(t, c) # "none"
               THEN [soc |-> s1, error |-> cpu_check(t, c)]
               ELSE IF c = "cpu"
               THEN irq_interconnect(s1, c,
                                     InNameOrder(LocKeys(s1.irq_locs)), 1)
               ELSE [soc |-> s1, error |-> "none"]

\* Lines 764-839.  `slaves` keeps no order, so the slave whose decoder fails
\* first (line 775) is any failing one.
Finalize ==
    /\ error = "none"
    /\ ~finalized
    /\ LET errs == slave_decoder_errors(Bus, slaves)
           o == do_finalize(Bus, cpu, soc)
       IN IF errs # {}
          THEN error' \in errs /\ finalized' = FALSE /\ soc' = soc
          ELSE /\ error' = o.error
               /\ finalized' = (o.error = "none")
               /\ soc' = o.soc
    /\ UNCHANGED <<masters, slaves, regions, io_regions, ld_regions, overlap,
                   dec, locs, n_locs, ctor, cpu, probe>>

FinalizeRegions == {SoCRegion(0, 4, TRUE), SoCRegion(4, 8, TRUE)}

FinalizeSlaveRegions ==
    {NoRegion, SoCRegion(4, 8, TRUE), SoCLinkerRegion(0, 8, TRUE)}

NextFinalize ==
    \/ \E kind \in CpuKinds, buses \in CpuBuses : AddCpu(kind, buses, <<>>)
    \/ \E name \in RequiredRegions, region \in FinalizeRegions :
          AddRegion(name, region)
    \/ \E name \in RequiredRegions, region \in LinkerRegions :
          AddRegion(name, region)
    \/ \E name \in RequiredRegions, region \in FinalizeSlaveRegions :
          AddSlave(name, region)
    \/ Finalize

SpecFinalize == Init /\ [][NextFinalize]_vars

\* ------------------------------------------------ SoC: the CSR address map
\* One I/O region that holds the CSR space at either of two origins.
CsrIORegion == SoCIORegion(0, 2^(csr_address_width + 4), FALSE)

CsrOrigins == {0, 2^(csr_address_width + 2)}

\* The CSR slots a caller asks for: two low ones and the highest one that
\* SoCLocHandler.add lets through (line 402).
CsrSlots == {1, 3, CSRCapacity(csr_address_width, csr_paging)}

\* A SoC without a CPU core gets a bridge, a controller and a timer, whose CSR
\* slots are allocated or given by the caller, and is finalized.
NextCsrMap ==
    \/ AddRegion("io0", CsrIORegion)
    \/ \E origin \in CsrOrigins : AddCsrBridge(origin)
    \/ AddCpu("CPUNone", 1, <<>>)
    \/ AddController("ctrl")
    \/ AddTimer("timer0")
    \/ \E name \in {"ctrl", "timer0"}, n \in CsrSlots : CsrAdd(name, n)
    \/ Finalize

SpecCsrMap == Init /\ [][NextCsrMap]_vars

\* ---------------------------------------------- SoC: the interrupt wiring
\* A SoC with a CPU core, with or without an interrupt of its own, gets the
\* regions the CPU needs, a bridge, a controller and a timer; interrupts are
\* requested for the controller and for names that no component has.
NextWiring ==
    \/ AddRegion("io0", CsrIORegion)
    \/ AddCsrBridge(0)
    \/ \E name \in RequiredRegions, region \in LinkerRegions :
          AddRegion(name, region)
    \/ \E interrupts \in {<<>>, <<LocItem("nmi", 0)>>} :
          AddCpu("cpu", 1, interrupts)
    \/ AddController("ctrl")
    \/ AddTimer("timer0")
    \/ \E name \in {"ctrl", "uart", "UART"} : IrqAdd(name, NoSlot, TRUE)
    \/ Finalize

SpecWiring == Init /\ [][NextWiring]_vars

\* ================================================================ claims
\* The address ranges [origin, origin + size) of A and B do not meet.
Disjoint(A, B) ==
    A.origin + A.size <= B.origin \/ B.origin + B.size <= A.origin

\* The range of r lies inside the range of c.
Within(r, c) ==
    c.origin <= r.origin /\ r.origin + r.size <= c.origin + c.size

IsPow2(n) == \E k \in 0 .. AddressWidth + DecoderAddressWidth : n = 2^k

Aligned(r) == IsPow2(r.size) /\ r.origin % r.size = 0

\* The calls probed in a state: every add_region call of Next.
RegionCalls ==
    (Names \X (PlainRegions \cup IORegions))
    \cup (LinkerNames \X (LinkerRegions \cup {NotARegion}))
    \cup (SlaveNames \X (SlaveRegions \ {NoRegion}))

ExplicitPlainCalls ==
    {c \in RegionCalls : c[2].type = "SoCRegion" /\ c[2].origin # NoOrigin}

\* The sizes and cachings alloc_region is probed with.
AllocSizes == 1 .. 2^(AddressWidth - 1)

\* C1: after any sequence of successful add_region / add_slave calls no two
\* entries of the plain `regions` table overlap.
C1_RegionsPairwiseDisjoint ==
    error = "none" =>
        \A i, j \in DOMAIN regions :
            i # j => Disjoint(regions[i], regions[j])

\* Three plain regions, one registered by add_slave and one placed by the
\* allocator behind the others, after successful calls only.
C1_Witness ==
    /\ error = "none"
    /\ Len(regions) = 3
    /\ "c" \in slaves
    /\ \E i \in DOMAIN regions : regions[i].origin \notin Origins

\* C2: a region returned by alloc_region overlaps no region that is in the
\* `regions` table at the time of the call, in every reachable table.
C2_AllocOverlapsNothing ==
    \A size \in AllocSizes, cached \in BOOLEAN :
        LET c == alloc_region(regions, io_regions, size, cached)
        IN c # NoRegion => \A i \in DOMAIN regions : Disjoint(regions[i], c)

\* A table of two regions in which the allocator has to skip ahead twice
\* before it returns a region.
C2_Witness ==
    /\ error = "none"
    /\ Len(regions) >= 2
    /\ \E size \in AllocSizes :
          LET c == alloc_region(regions, io_regions, size, TRUE)
          IN /\ c # NoRegion
             /\ \E i, j \in DOMAIN regions :
                   /\ i # j
                   /\ regions[i].origin + regions[i].size <= c.origin
                   /\ regions[j].origin + regions[j].size <= c.origin
                   /\ ~Disjoint(regions[i], SoCRegion(0, size, TRUE))
                   /\ ~Disjoint(regions[j],
                                SoCRegion(regions[i].origin + regions[i].size,
                                          size, TRUE))

\* C3: alloc_region called with a power-of-two size returns a region of that
\* size whose origin is a multiple of the size.  Stated for tables whose
\* regions are all power-of-two sized and aligned, so that the failure does
\* not rest on C4.
C3_AllocAligned ==
    (error = "none" /\ \A i \in DOMAIN regions : Aligned(regions[i])) =>
        \A size \in {n \in AllocSizes : IsPow2(n)}, cached \in BOOLEAN :
            LET c == alloc_region(regions, io_regions, size, cached)
            IN c # NoRegion => c.size = size /\ c.origin % c.size = 0

\* C4: every region stored with an origin has a power-of-two size and an
\* origin that is a multiple of its size.
C4_StoredRegionsAligned ==
    error = "none" =>
        /\ \A i \in DOMAIN regions : Aligned(regions[i])
        /\ \A i \in DOMAIN io_regions : Aligned(io_regions[i])
        /\ \A i \in DOMAIN ld_regions : Aligned(ld_regions[i])

\* C5: add_region of an uncached plain region with an explicit origin that
\* lies inside no region of `io_regions` fails with UncachedRegionOutsideIO
\* and leaves `regions` unchanged.
C5_UncachedOutsideIORejected ==
    error = "none" =>
        \A c \in ExplicitPlainCalls :
            (~c[2].cached /\ ~\E i \in DOMAIN io_regions :
                                  Within(c[2], io_regions[i])) =>
                LET o == add_region(Bus, c[1], c[2])
                IN /\ o.error = "UncachedRegionOutsideIO"
                   /\ o.regions = regions

\* The composition aborted on an uncached region although I/O regions and
\* plain regions were declared.
C5_Witness ==
    /\ error = "UncachedRegionOutsideIO"
    /\ io_regions # <<>>
    /\ regions # <<>>

\* C6: after any sequence of add_region / add_slave calls every uncached
\* entry of the plain `regions` table lies inside some region that is in
\* `io_regions` now.
C6_UncachedInsideIO ==
    error = "none" =>
        \A i \in DOMAIN regions :
            ~regions[i].cached =>
                \E k \in DOMAIN io_regions : Within(regions[i], io_regions[k])

\* The table a call selects by the variant of its region.
TableOf(t, region) ==
    IF region.type = "SoCIORegion" THEN t.io_regions
    ELSE IF region.type = "SoCLinkerRegion" THEN t.ld_regions
    ELSE t.regions

\* C7: add_region with a name that is already in the table its region's
\* variant selects fails with DuplicateRegionName and leaves that table as it
\* was.
C7_DuplicateNameRejected ==
    error = "none" =>
        \A c \in {x \in RegionCalls : x[2].type # "int"} :
            c[1] \in Keys(TableOf(Bus, c[2])) =>
                LET o == add_region(Bus, c[1], c[2])
                IN /\ o.error = "DuplicateRegionName"
                   /\ TableOf(o, c[2]) = TableOf(Bus, c[2])

\* The outcome C8 describes for the call c: RegionOverlap(earliest, new) when
\* the new range meets a stored one, success otherwise.
C8_Outcome(c) ==
    LET hits == {i \in DOMAIN regions : ~Disjoint(regions[i], c[2])}
        o == add_region(Bus, c[1], c[2])
    IN IF hits # {}
       THEN /\ o.error = "RegionOverlap"
            /\ o.overlap = <<regions[Min(hits)].name, c[1]>>
       ELSE /\ o.error = "none"
            /\ o.regions = Append(regions, Entry(c[1], c[2]))

\* C8, as stated: add_region with a new name and an explicit-origin plain
\* region fails with RegionOverlap(earliest overlapped, new) when its range
\* overlaps a stored plain region, and succeeds when it overlaps none (here
\* only for tables that hold a region already).
C8_OverlapReported ==
    (error = "none" /\ regions # <<>>) =>
        \A c \in ExplicitPlainCalls :
            c[1] \notin Keys(regions) => C8_Outcome(c)

\* C8, amended: the same for a region that is cached or lies in an I/O region
\* by check_region_is_io; an uncached region outside the I/O regions fails
\* with UncachedRegionOutsideIO before the overlap check.
C8_OverlapReportedAfterIOCheck ==
    error = "none" =>
        \A c \in ExplicitPlainCalls :
            c[1] \notin Keys(regions) =>
                IF c[2].cached \/ check_region_is_io(io_regions, c[2])
                THEN C8_Outcome(c)
                ELSE add_region(Bus, c[1], c[2]).error
                         = "UncachedRegionOutsideIO"

\* The third region added overlaps both stored ones and the error names the
\* one inserted first.
C8_Witness ==
    /\ error = "RegionOverlap"
    /\ Len(regions) = 3
    /\ ~Disjoint(regions[1], regions[3])
    /\ ~Disjoint(regions[2], regions[3])
    /\ Disjoint(regions[1], regions[2])
    /\ overlap = <<regions[1].name, regions[3].name>>

\* C9: an add_region call that fails leaves `regions`, `io_regions` and
\* `ld_regions` as they were before the call.
C9_FailedCallChangesNothing ==
    error = "none" =>
        \A c \in RegionCalls :
            LET o == add_region(Bus, c[1], c[2])
            IN o.error # "none" =>
                  /\ o.regions = regions
                  /\ o.io_regions = io_regions
                  /\ o.ld_regions = ld_regions

\* The region of C10: a power-of-two size of at least one bus word, an origin
\* that is a multiple of it, and the three word addresses the claim names.
C10_Expected(maxSize, maxEnd) ==
    LET O == dec.origin
        S == dec.size
    IN (/\ dec.out \notin {"pending", "none"}
        /\ IsPow2(S) /\ 4 <= S /\ S <= maxSize
        /\ O % S = 0) =>
           /\ dec.a = WordAddress(O) => dec.out = "accept"
           /\ dec.a = WordAddress(O + S - 4) => dec.out = "accept"
           /\ (O + S <= maxEnd /\ dec.a = WordAddress(O + S)) =>
                 dec.out = "reject"

C11_SlotsInRange ==
    \A e \in locs : 0 <= e.n /\ e.n < n_locs

\* C12: no two distinct names of `locs` have the same slot number, and no
\* name has two slot numbers.
C12_SlotsUnique ==
    \A e1, e2 \in locs : (e1.n = e2.n \/ e1.name = e2.name) => e1 = e2

\* Three names registered, slot 1 left free and taken up again.
C12_Witness ==
    /\ error = "none"
    /\ n_locs = 3
    /\ Cardinality(locs) = 3
    /\ LocValues(locs) = {0, 1, 2}
    /\ LocItem("a", 2) \in locs
    /\ LocItem("c", 0) \in locs

\* C13: add(name, n, use_loc_if_exists=True) for a name that has a slot
\* succeeds and leaves `locs` as it is, whatever n is.
C13_ReuseIdempotent ==
    error = "none" =>
        \A name \in LocKeys(locs), n \in Slots \cup {NoSlot} :
            add(locs, n_locs, name, n, TRUE) = LocOutcome(locs, "none")

\* Two names hold slots, so that n can be the slot of the other name.
C13_Witness ==
    /\ error = "none"
    /\ Cardinality(locs) = 2
    /\ LocValues(locs) = {0, 1}

\* C14: alloc, when it returns, returns the smallest number of [0, n_locs)
\* that is not a value of `locs`.
C14_AllocSmallestFree ==
    LET a == alloc(locs, n_locs)
    IN a # NoSlot =>
          /\ a \in 0 .. n_locs - 1
          /\ a \notin LocValues(locs)
          /\ \A k \in 0 .. a - 1 : k \in LocValues(locs)

\* Slot 0 is taken, slot 1 is free and slot 2 is taken: alloc returns 1.
C14_Witness ==
    /\ error = "none"
    /\ n_locs = 3
    /\ LocValues(locs) = {0, 2}
    /\ alloc(locs, n_locs) = 1

\* C15: `locs` never holds more than n_locs entries, and once it holds n_locs
\* entries an add of a new name without a slot number fails with
\* CapacityExhausted and leaves `locs` unchanged.
C15_CapacityRespected ==
    /\ Cardinality(locs) <= n_locs
    /\ (error = "none" /\ Cardinality(locs) = n_locs) =>
          \A name \in LocNames \ LocKeys(locs), use \in BOOLEAN :
              add(locs, n_locs, name, NoSlot, use)
                  = LocOutcome(locs, "CapacityExhausted")

\* C16: the capacity of a SoCCSRHandler is 4 * 2^address_width / paging, 32
\* for address_width 14 and paging 0x800; an add of a new name without a slot
\* number succeeds while fewer than that many slots are taken and fails with
\* CapacityExhausted afterwards.
C16_CSRCapacity ==
    (ctor.kind = "CSR" /\ ctor.state = "done") =>
        /\ n_locs * ctor.paging = 4 * 2^ctor.address_width
        /\ (ctor.address_width = 14 /\ ctor.paging = 2048) => n_locs = 32
        /\ error = "CapacityExhausted" => Cardinality(locs) = n_locs
        /\ error = "none" =>
              LET o == add(locs, n_locs, Cardinality(locs) + 1, NoSlot, FALSE)
              IN IF Cardinality(locs) < n_locs
                 THEN /\ o.error = "none"
                      /\ Cardinality(o.locs) = Cardinality(locs) + 1
                 ELSE o = LocOutcome(locs, "CapacityExhausted")

\* The handler of address_width 14 and paging 0x800, nothing reserved, after
\* the 33rd add: 32 names hold a slot and the call failed.
C16_Witness ==
    /\ ctor.kind = "CSR" /\ ctor.state = "done"
    /\ ctor.address_width = 14 /\ ctor.paging = 2048 /\ ctor.reserved = <<>>
    /\ error = "CapacityExhausted"
    /\ LocKeys(locs) = 1 .. 32

\* The reserved IRQs are valid: distinct slots inside [0, n_irqs).
C17_ValidReserved ==
    /\ \A k \in DOMAIN ctor.reserved :
          0 <= ctor.reserved[k].n /\ ctor.reserved[k].n < ctor.n_irqs
    /\ \A j, k \in DOMAIN ctor.reserved :
          ctor.reserved[j].n = ctor.reserved[k].n => j = k

\* C17: SoCIRQHandler(n_irqs > 32) fails with UnsupportedIrqCount and no
\* reserved IRQ is registered; with n_irqs <= 32 and valid reserved IRQs the
\* construction succeeds with capacity n_irqs and the reserved IRQs in `locs`.
C17_IrqCountChecked ==
    (ctor.kind = "IRQ" /\ ctor.state = "done") =>
        /\ ctor.n_irqs > 32 =>
              error = "UnsupportedIrqCount" /\ locs = {}
        /\ (ctor.n_irqs <= 32 /\ C17_ValidReserved) =>
              /\ error = "none"
              /\ n_locs = ctor.n_irqs
              /\ locs = Range(ctor.reserved)

\* n_irqs = 40 with two reserved IRQs: the construction failed and `locs` is
\* empty.
C17_Witness ==
    /\ ctor.kind = "IRQ" /\ ctor.state = "done"
    /\ ctor.n_irqs = 40
    /\ Len(ctor.reserved) = 2
    /\ error = "UnsupportedIrqCount"
    /\ locs = {}

\* C18: add_master with a name that is in `masters` fails with
\* DuplicateMasterName and leaves `masters` unchanged; otherwise it adds
\* exactly that one name; an omitted name stands for master<N>, N the number
\* of masters before the call.
C18_MasterAdded ==
    error = "none" =>
        \A name \in MasterNames \cup {NoName} :
            LET N == Cardinality(masters)
                n == IF name = NoName
                     THEN <<"master0", "master1", "master2", "master3",
                            "master4">>[N + 1]
                     ELSE name
                o == add_master(masters, name)
            IN IF n \in masters
               THEN o = [masters |-> masters, error |-> "DuplicateMasterName"]
               ELSE /\ o.error = "none"
                    /\ o.masters = masters \cup {n}
                    /\ Cardinality(o.masters) = N + 1

\* A named master followed by two unnamed ones, registered as master1 and
\* master2.
C18_Witness ==
    /\ error = "none"
    /\ masters = {"a", "master1", "master2"}

\* The add_slave calls probed in a state.
SlaveCalls ==
    (SlaveNames \cup {NoName})
    \X ({NoRegion} \cup {SoCRegion(o, 4, TRUE) : o \in Origins})

\* C19: add_slave fails with MissingNameOrRegion when name and region are
\* omitted, with UnknownRegionName when only a name is given that no plain
\* region has, with DuplicateSlaveName when only the name of a slave is
\* given; a call that fails with one of the three leaves `slaves` and the
\* region tables as they were.
C19_SlaveFailuresChangeNothing ==
    error = "none" =>
        \A c \in SlaveCalls :
            LET o == add_slave(Bus, slaves, c[1], c[2])
            IN /\ (c[1] = NoName /\ c[2] = NoRegion) =>
                      o.error = "MissingNameOrRegion"
               /\ (c[1] # NoName /\ c[2] = NoRegion
                       /\ c[1] \notin Keys(regions)) =>
                      o.error = "UnknownRegionName"
               /\ (c[1] \in slaves /\ c[2] = NoRegion) =>
                      o.error = "DuplicateSlaveName"
               /\ o.error \in {"MissingNameOrRegion", "UnknownRegionName",
                               "DuplicateSlaveName"} =>
                      /\ o.slaves = slaves
                      /\ o.regions = regions
                      /\ o.io_regions = io_regions
                      /\ o.ld_regions = ld_regions

\* C20: finalize fails with MissingRequiredRegion exactly when a CPU is
\* present and `rom` or `sram` is in neither `regions` nor `ld_regions`
\* (here: for a finalize that got as far as the CPU check); without a CPU the
\* CPU check fails no finalize.
C20_MissingRegionIffCpu ==
    LET missing == \E name \in {"rom", "sram"} :
                      name \notin Keys(regions) \cup Keys(ld_regions)
    IN /\ error = "MissingRequiredRegion" => (cpu = "cpu" /\ missing)
       /\ finalized => ~(cpu = "cpu" /\ missing)
       /\ cpu # "cpu" =>
             error \notin {"MissingRequiredRegion", "AttributeError"}

\* The linker regions add_region is probed with.
LinkerProbes == {SoCLinkerRegion(o, s, TRUE) : o \in Origins, s \in Sizes}

\* C29: add_region of a SoCLinkerRegion never fails with RegionOverlap, and
\* a plain or I/O add_region has the outcome it would have with an empty
\* `ld_regions` table: the linker regions make no call fail with an overlap.
C29_LinkerRegionsExempt ==
    error = "none" =>
        /\ \A name \in Names, region \in LinkerProbes :
               LET o == add_region(Bus, name, region)
               IN /\ o.error # "RegionOverlap"
                  /\ o.error = "none" => name \in Keys(o.ld_regions)
        /\ \A c \in RegionCalls :
               c[2].type \in {"SoCRegion", "SoCIORegion"} =>
                   LET o == add_region(Bus, c[1], c[2])
                       w == add_region(Tables(masters, regions, io_regions,
                                              <<>>), c[1], c[2])
                   IN /\ o.error = w.error
                      /\ o.overlap = w.overlap
                      /\ o.regions = w.regions
                      /\ o.io_regions = w.io_regions

\* A linker region over [0, 8) next to a plain region and an I/O region that
\* both lie inside [0, 8).
C29_Witness ==
    /\ error = "none"
    /\ ld_regions # <<>>
    /\ \E i \in DOMAIN regions : regions[i].origin + regions[i].size <= 8
    /\ \E i \in DOMAIN io_regions : io_regions[i].origin = 0

\* C30: add(name, n, use_loc_if_exists), without reuse or with reuse for a
\* name that has no slot, fails with DuplicateLocationName when the name has
\* a slot and with DuplicateLocationNumber when the name is new and n is the
\* slot of another name, both times leaving `locs` as it is; a new name with
\* a free n of [0, n_locs), or with no n while a slot is free, adds exactly
\* name -> n.
C30_DuplicatesRejected ==
    error = "none" =>
        \A name \in LocNames, n \in Slots \cup {NoSlot}, use \in BOOLEAN :
            ~(use /\ name \in LocKeys(locs)) =>
                LET o == add(locs, n_locs, name, n, use)
                IN /\ name \in LocKeys(locs) =>
                          o = LocOutcome(locs, "DuplicateLocationName")
                   /\ (name \notin LocKeys(locs) /\ n \in LocValues(locs)) =>
                          o = LocOutcome(locs, "DuplicateLocationNumber")
                   /\ (name \notin LocKeys(locs) /\ n \in 0 .. n_locs - 1
                           /\ n \notin LocValues(locs)) =>
                          o = LocOutcome(locs \cup {LocItem(name, n)}, "none")
                   /\ (name \notin LocKeys(locs) /\ n = NoSlot
                           /\ alloc(locs, n_locs) # NoSlot) =>
                          o = LocOutcome(
                                  locs \cup {LocItem(name,
                                                     alloc(locs, n_locs))},
                                  "none")

\* Two names hold the slots 0 and 2, slot 1 is free.
C30_Witness ==
    /\ error = "none"
    /\ n_locs = 3
    /\ Cardinality(locs) = 2
    /\ LocValues(locs) = {0, 2}

\* C24: for two regions A and B that are no linker regions,
\* check_regions_overlap({"0": A, "1": B}) reports a pair exactly when
\* neither A.origin + A.size <= B.origin nor B.origin + B.size <= A.origin;
\* it reports a pair for (B, A) exactly when it does for (A, B); two regions
\* that touch are no overlap.
C24_OverlapOfTwoRegions ==
    (/\ probe.fn = "check_regions_overlap" /\ probe.done
     /\ probe.r0.type # "SoCLinkerRegion"
     /\ probe.r1.type # "SoCLinkerRegion") =>
        LET A == probe.r0
            B == probe.r1
            swapped == check_regions_overlap(<<Entry("0", B), Entry("1", A)>>)
        IN /\ (probe.overlap # NoOverlap) <=>
                  (/\ ~(A.origin + A.size <= B.origin)
                   /\ ~(B.origin + B.size <= A.origin))
           /\ probe.overlap # NoOverlap => probe.overlap = <<"0", "1">>
           /\ (swapped # NoOverlap) <=> (probe.overlap # NoOverlap)
           /\ (A.origin + A.size = B.origin \/ B.origin + B.size = A.origin)
                  => probe.overlap = NoOverlap

\* B starts where A ends, and no pair is reported.
C24_Witness ==
    /\ probe.fn = "check_regions_overlap" /\ probe.done
    /\ probe.r0.type = "SoCRegion" /\ probe.r1.type = "SoCRegion"
    /\ probe.r0.origin + probe.r0.size = probe.r1.origin
    /\ probe.overlap = NoOverlap

\* C28: check_region_is_in(region, container) is true exactly when
\* region.origin >= container.origin and region.origin + region.size <
\* container.origin + container.size, and check_region_is_io(region) is true
\* exactly when that holds for some region of `io_regions`.
C28_ContainmentStrict ==
    /\ (probe.fn = "check_region_is_in" /\ probe.done) =>
           (probe.answer <=>
               (/\ probe.r0.origin >= probe.r1.origin
                /\ probe.r0.origin + probe.r0.size
                      < probe.r1.origin + probe.r1.size))
    /\ (probe.fn = "check_region_is_io" /\ probe.done) =>
           (probe.answer <=>
               \E i \in DOMAIN io_regions :
                   /\ probe.r0.origin >= io_regions[i].origin
                   /\ probe.r0.origin + probe.r0.size
                         < io_regions[i].origin + io_regions[i].size)

\* A region that ends where the only I/O region ends is not an I/O region.
C28_Witness ==
    /\ probe.fn = "check_region_is_io" /\ probe.done
    /\ Len(io_regions) = 1
    /\ probe.r0.origin > io_regions[1].origin
    /\ probe.r0.origin + probe.r0.size
          = io_regions[1].origin + io_regions[1].size
    /\ ~probe.answer

\* The search spaces alloc_region is specified to look into: the whole
\* address space for a cached region, the I/O regions otherwise.
C25_Spaces(cached) ==
    IF cached THEN <<SoCRegion(0, 2^AddressWidth, TRUE)>> ELSE io_regions

\* A region of `size` at origin o lies inside `space` and overlaps no entry
\* of `regions`.
C25_Fits(space, o, size) ==
    /\ Within(SoCRegion(o, size, TRUE), space)
    /\ \A i \in DOMAIN regions :
          Disjoint(regions[i], SoCRegion(o, size, TRUE))

C25_FitsOf(space, size) ==
    {o \in 0 .. 2^(AddressWidth + 1) : C25_Fits(space, o, size)}

\* C25: when alloc_region returns a region, its origin is the smallest
\* address of the first search space (in insertion order) with a fit at
\* which the region lies inside that space and overlaps no entry of
\* `regions`.
C25_FirstFit ==
    error = "none" =>
        \A size \in AllocSizes, cached \in BOOLEAN :
            LET c == alloc_region(regions, io_regions, size, cached)
                spaces == C25_Spaces(cached)
                admitting == {k \in DOMAIN spaces :
                                C25_FitsOf(spaces[k], size) # {}}
            IN c # NoRegion =>
                  /\ admitting # {}
                  /\ c.origin = Min(C25_FitsOf(spaces[Min(admitting)], size))

\* C26: alloc_region fails with InsufficientAddressSpace exactly when no
\* search space (the whole address space for a cached region, each I/O
\* region otherwise) has an origin at which the region lies inside the space
\* and overlaps no entry of `regions`.
C26_FailsIffNoFit ==
    error = "none" =>
        \A size \in AllocSizes, cached \in BOOLEAN :
            LET c == alloc_region(regions, io_regions, size, cached)
                spaces == C25_Spaces(cached)
            IN (c = NoRegion) <=>
                  \A k \in DOMAIN spaces : C25_FitsOf(spaces[k], size) = {}

\* C27: alloc_region terminates, by returning a region or by raising
\* InsufficientAddressSpace, for every positive size and every table that
\* add_region calls build; within one search region every rejected candidate
\* moves the search origin strictly upwards.
C27_AllocTerminates ==
    /\ [][(/\ probe.fn = "alloc_region"
           /\ probe'.fn = "alloc_region"
           /\ ~probe'.done
           /\ probe'.k = probe.k) => probe'.origin > probe.origin]_vars
    /\ (probe.fn = "alloc_region") ~> (probe.fn = "alloc_region" /\ probe.done)

\* A cached region of size 4 is returned at origin 8, behind two adjacent
\* allocated regions that each rejected one candidate.
C27_Witness ==
    /\ probe.fn = "alloc_region" /\ probe.done
    /\ probe.size = 4
    /\ probe.region.origin = 8
    /\ Len(regions) = 2
    /\ \E i \in DOMAIN regions : regions[i].origin = 0 /\ regions[i].size = 4
    /\ \E i \in DOMAIN regions : regions[i].origin = 4 /\ regions[i].size = 4

\* C21: in a finalized SoC with a CPU core every (name, loc) of the IRQ slot
\* table that is no interrupt of the CPU itself belongs to a component with
\* an event source, is wired to the CPU's interrupt line loc and has the
\* constant <NAME>_INTERRUPT = loc; the finalize of a SoC with a slot whose
\* component has no event source fails.
C21_IrqSlotsWired ==
    /\ (finalized /\ cpu = "cpu") =>
           \A e \in soc.irq_locs :
               e.name \notin soc.cpu_interrupts =>
                   /\ \E m \in soc.submodules : m.name = e.name /\ m.ev
                   /\ [loc |-> e.n, name |-> e.name] \in soc.irq_wired
                   /\ [name |-> <<Upper(e.name), "_INTERRUPT">>,
                       value |-> e.n] \in soc.constants
    /\ error = "MissingEventSource" =>
           \E e \in soc.irq_locs, m \in soc.submodules :
               m.name = e.name /\ ~m.ev

\* The CSR regions are those of the components with CSRs, each at the origin
\* of its slot, in strictly ascending order of origin.
C22_Mapped ==
    /\ \A m \in soc.submodules :
           m.csrs =>
               \E i \in DOMAIN soc.csr_regions :
                   /\ soc.csr_regions[i].name = m.name
                   /\ soc.csr_regions[i].origin
                         = Get(regions, "csr").origin
                           + csr_paging * LocOf(soc.csr_locs, m.name)
    /\ \A i, j \in DOMAIN soc.csr_regions :
           i < j => soc.csr_regions[i].origin < soc.csr_regions[j].origin
    /\ Len(soc.csr_regions) = Cardinality({m \in soc.submodules : m.csrs})

\* C22: a successful finalize leaves, for every CSR bank, registered at slot
\* k, a CSR region of origin bus.regions["csr"].origin + paging * k, and
\* leaves the regions of the CSR handler in strictly ascending order of
\* origin.
C22_CsrRegionsMapped ==
    [][(~finalized /\ finalized') => C22_Mapped']_vars

\* The timer got slot 0 and the controller slot 1: the banks, scanned by
\* name, are mapped behind the CSR origin in the opposite order.
C22_Witness ==
    /\ finalized
    /\ "csr" \in Keys(regions)
    /\ Get(regions, "csr").origin = 2^(csr_address_width + 2)
    /\ Len(soc.csr_regions) = 2
    /\ soc.csr_regions[1] = [name |-> "timer0",
                             origin |-> 2^(csr_address_width + 2)]
    /\ soc.csr_regions[2] = [name |-> "ctrl",
                             origin |-> 2^(csr_address_width + 2)
                                        + csr_paging]

\* C23: once finalize has completed, every step is a rejected call that
\* leaves the bus tables and the CSR and IRQ slot tables as they are.
C23_FrozenAfterFinalize ==
    [][finalized =>
          /\ error' # "none"
          /\ UNCHANGED <<masters, slaves, regions, io_regions, ld_regions>>
          /\ soc'.csr_locs = soc.csr_locs
          /\ soc'.irq_locs = soc.irq_locs]_vars

\* The second region of C31: a power-of-two size of at least one bus word,
\* an origin that is a multiple of it, inside the address space.
C31_Regions ==
    {r \in {SoCRegion(o, 2^k, TRUE) :
                o \in DecoderOrigins, k \in 2 .. DecoderAddressWidth - 1} :
        Aligned(r)}

\* C31: a word address accepted by the decoder of a region (power-of-two
\* size, aligned origin) is accepted by the decoder of no other such region
\* of the address space that does not overlap it.
C31_DecodersDisjoint ==
    LET r1 == SoCRegion(dec.origin, dec.size, TRUE)
    IN (dec.out = "accept" /\ r1 \in C31_Regions) =>
          \A r2 \in C31_Regions :
              Disjoint(r1, r2) =>
                  (decoder_raises(r2) \/ ~decoder(r2, dec.a))

\* The same for two regions that both lie in the lower half of the address
\* space, each of at most a quarter of it.
C31_LowerHalfDisjoint ==
    LET r1 == SoCRegion(dec.origin, dec.size, TRUE)
        half == SoCRegion(0, 2^(DecoderAddressWidth - 1), TRUE)
    IN (dec.out = "accept" /\ r1 \in C31_Regions /\ Within(r1, half)
        /\ r1.size < half.size) =>
          \A r2 \in C31_Regions :
              (Disjoint(r1, r2) /\ Within(r2, half) /\ r2.size < half.size) =>
                  (decoder_raises(r2) \/ ~decoder(r2, dec.a))

\* C32: while no call has failed, every name of the `slaves` table has an
\* entry in the plain `regions` table, whichever region variant add_slave was
\* given.
C32_SlavesHaveRegions ==
    error = "none" => slaves \subseteq Keys(regions)

\* The CSR regions lie inside the bus region `csr`, and any two of them are
\* at least `paging` apart.
C33_Inside ==
    LET csr == Get(regions, "csr")
    IN /\ \A i \in DOMAIN soc.csr_regions :
              /\ csr.origin <= soc.csr_regions[i].origin
              /\ soc.csr_regions[i].origin
                    < csr.origin + 2^(csr_address_width + 2)
       /\ \A i, j \in DOMAIN soc.csr_regions :
              i < j => soc.csr_regions[j].origin
                          >= soc.csr_regions[i].origin + csr_paging

\* C33: a successful finalize leaves every CSR region, whatever slot its
\* component was registered at, with an origin in
\* [csr.origin, csr.origin + 2^(csr_address_width + 2)), and the origins of
\* distinct slots at least `paging` apart.
C33_CsrOriginsInside ==
    [][(~finalized /\ finalized') => C33_Inside']_vars

====
